---- MODULE Spec2Model ----
(***************************************************************************)
(* Model of the bank account ledger of account.py: the Account class, its  *)
(* class-level transaction counter and interest rate, and the module-level *)
(* `transactions` registry.                                                *)
(*                                                                         *)
(* Python numbers are modelled exactly: a numbers.Real value is a rational *)
(* n/d in lowest terms, or one of the float specials nan, inf, -inf (all   *)
(* three are instances of numbers.Real); anything else ("other") is a      *)
(* value that is not a numbers.Real, such as a str or None.  Rounding of   *)
(* binary floats is not modelled.  Strings are sequences of one-character  *)
(* strings, so formatting and splitting are computed character by          *)
(* character.                                                              *)
(*                                                                         *)
(* Each method is one action.  deposit, withdraw and pay_interest are also *)
(* modelled statement by statement (Call .. Settle), for callers that run  *)
(* them from two threads without a lock.                                   *)
(***************************************************************************)
EXTENDS Integers, Sequences, FiniteSets, TLC

\* ---------------------------------------------------------------- bounds
\* Largest transaction id the model lets the shared counter hand out.
MaxId == 2

\* ------------------------------------------------------- Python numbers
\* The arithmetic is written as functions of the operand values, with one
\* operator per Python operation on top of them.
gcd[a \in Nat, b \in Nat] == IF b = 0 THEN a ELSE gcd[b, a % b]

GCD(a, b) == gcd[a, b]

Abs(x) == IF x < 0 THEN 0 - x ELSE x

\* The rational n/d (d > 0) in lowest terms.
lowest[n \in Int, d \in Nat] ==
    LET g == gcd[Abs(n), d]
    IN  [k |-> "num", n |-> n \div g, d |-> d \div g]

Num(n, d) == lowest[n, d]

Values == [k : {"num", "nan", "inf", "ninf", "other", "none"}, n : Int, d : Nat]

NaN == [k |-> "nan", n |-> 0, d |-> 1]
Inf == [k |-> "inf", n |-> 0, d |-> 1]
NegInf == [k |-> "ninf", n |-> 0, d |-> 1]
\* A value that is not a numbers.Real (a str, None, a complex number).
NotReal == [k |-> "other", n |-> 0, d |-> 1]
\* Python's None, for an optional numeric argument.
None == [k |-> "none", n |-> 0, d |-> 1]

Zero == [k |-> "num", n |-> 0, d |-> 1]

\* isinstance(value, numbers.Real): true of ints, floats (nan and the
\* infinities included), Fractions; false of everything else.
IsReal(v) == v.k \in {"num", "nan", "inf", "ninf"}

Sign(v) ==
    CASE v.k = "inf" -> 1
      [] v.k = "ninf" -> 0 - 1
      [] OTHER -> IF v.n > 0 THEN 1 ELSE IF v.n < 0 THEN 0 - 1 ELSE 0

\* a < b on reals: every comparison with nan is False.
lt[a \in Values, b \in Values] ==
    CASE a.k = "nan" \/ b.k = "nan" -> FALSE
      [] a.k = "inf" -> FALSE
      [] a.k = "ninf" -> b.k # "ninf"
      [] b.k = "inf" -> TRUE
      [] b.k = "ninf" -> FALSE
      [] OTHER -> a.n * b.d < b.n * a.d

Lt(a, b) == lt[a, b]

\* a == b on reals: nan equals nothing, itself included.
eq[a \in Values, b \in Values] == a.k # "nan" /\ b.k # "nan" /\ a = b

Eq(a, b) == eq[a, b]

neg[a \in Values] ==
    CASE a.k = "nan" -> NaN
      [] a.k = "inf" -> NegInf
      [] a.k = "ninf" -> Inf
      [] OTHER -> lowest[0 - a.n, a.d]

Neg(a) == neg[a]

\* a + b: nan is absorbing, inf + -inf is nan.
add[a \in Values, b \in Values] ==
    CASE a.k = "nan" \/ b.k = "nan" -> NaN
      [] a.k = "inf" -> IF b.k = "ninf" THEN NaN ELSE Inf
      [] a.k = "ninf" -> IF b.k = "inf" THEN NaN ELSE NegInf
      [] b.k \in {"inf", "ninf"} -> b
      [] OTHER -> LET g == gcd[a.d, b.d]
                  IN  lowest[a.n * (b.d \div g) + b.n * (a.d \div g),
                             (a.d \div g) * b.d]

Add(a, b) == add[a, b]

Sub(a, b) == add[a, neg[b]]

\* a * b: nan is absorbing, inf * 0 is nan.
mul[a \in Values, b \in Values] ==
    CASE a.k = "nan" \/ b.k = "nan" -> NaN
      [] a.k \in {"inf", "ninf"} \/ b.k \in {"inf", "ninf"} ->
            IF Sign(a) * Sign(b) = 0 THEN NaN
            ELSE IF Sign(a) * Sign(b) > 0 THEN Inf ELSE NegInf
      [] OTHER -> LET g == gcd[Abs(a.n), b.d]
                      h == gcd[Abs(b.n), a.d]
                  IN  lowest[(a.n \div g) * (b.n \div h),
                             (a.d \div h) * (b.d \div g)]

Mul(a, b) == mul[a, b]

\* ------------------------------------------------------- Python strings
Digit == <<"0", "1", "2", "3", "4", "5", "6", "7", "8", "9">>

\* str(n) for an int n >= 0, as the f-string formats id_num.
decimal[n \in Nat] ==
    IF n < 10 THEN <<Digit[n + 1]>>
    ELSE decimal[n \div 10] \o <<Digit[(n % 10) + 1]>>

IntToStr(n) == decimal[n]

\* s zero-padded on the left to at least w characters (%m, %d, %H, ...).
ZeroPad(s, w) ==
    IF Len(s) >= w THEN s ELSE [i \in 1..(w - Len(s)) |-> "0"] \o s

\* dt.strftime('%Y%m%d%H%M%S'): the microseconds are not part of the stamp.
strftime(dt) ==
    ZeroPad(IntToStr(dt.year), 4) \o ZeroPad(IntToStr(dt.month), 2)
        \o ZeroPad(IntToStr(dt.day), 2) \o ZeroPad(IntToStr(dt.hour), 2)
        \o ZeroPad(IntToStr(dt.minute), 2) \o ZeroPad(IntToStr(dt.second), 2)

\* The positions of the hyphens of s, and the largest member of a set.
Hyphens(s) == {i \in 1..Len(s) : s[i] = "-"}

Max(S) == CHOOSE x \in S : \A y \in S : y <= x

\* confirmation.split('-')[0]: what precedes the first hyphen.
FirstSegment(s) ==
    IF Hyphens(s) = {} THEN s
    ELSE SubSeq(s, 1, (CHOOSE i \in Hyphens(s) :
                          \A j \in Hyphens(s) : i <= j) - 1)

\* confirmation.split('-')[-1]: what follows the last hyphen (the whole
\* string when it has none).
LastSegment(s) ==
    IF Hyphens(s) = {} THEN s ELSE SubSeq(s, Max(Hyphens(s)) + 1, Len(s))

IsDigit(c) == \E i \in 1..10 : Digit[i] = c

DigitValue(c) == (CHOOSE i \in 1..10 : Digit[i] = c) - 1

\* int(s) accepts a non-empty string of decimal digits; anything else the
\* model feeds it raises ValueError.
IntParses(s) == s # <<>> /\ \A i \in 1..Len(s) : IsDigit(s[i])

StrToInt(s) ==
    LET value[i \in 0..Len(s)] ==
            IF i = 0 THEN 0 ELSE 10 * value[i - 1] + DigitValue(s[i])
    IN  value[Len(s)]

\* value.strip() for the blanks the model uses.
Strip(s) ==
    LET inked == {i \in 1..Len(s) : s[i] # " "}
    IN  IF inked = {} THEN <<>>
        ELSE SubSeq(s, CHOOSE i \in inked : \A j \in inked : i <= j,
                    Max(inked))

\* A Python str value, and a value that is not a str.
Str(s) == [t |-> "str", s |-> s]
NotStr == [t |-> "other", s |-> <<>>]

\* ------------------------------------------------------------ validation
Raise == [ok |-> FALSE, val |-> NotReal]
Return(v) == [ok |-> TRUE, val |-> v]

\* Account.validate_name: a str with something left after strip(); returns
\* the stripped string.
validate_name(value) ==
    IF value.t # "str" THEN [ok |-> FALSE, val |-> <<>>]
    ELSE IF Len(Strip(value.s)) = 0 THEN [ok |-> FALSE, val |-> <<>>]
    ELSE [ok |-> TRUE, val |-> Strip(value.s)]

\* validate_initial_balance without its min_value test.
validate_initial_balance_no_min(value, min_value) ==
    IF ~IsReal(value) THEN Raise
    ELSE IF Lt(value, Zero) THEN Raise
    ELSE Return(value)

\* Account.validate_initial_balance.
validate_initial_balance(value, min_value) ==
    IF ~IsReal(value) THEN Raise
    ELSE IF min_value.k # "none" /\ Lt(value, min_value) THEN Raise
    ELSE IF Lt(value, Zero) THEN Raise
    ELSE Return(value)

\* Account.validate_real_number.
validate_real_number(value, min_value) ==
    LET r == validate_initial_balance(value, min_value)
    IN  IF ~r.ok THEN Raise
        ELSE IF Eq(r.val, Zero) THEN Raise
        ELSE Return(r.val)

\* ------------------------------------------------------------ parameters
\* The Account objects the program creates.
Accounts == {1, 2}

\* min_value of deposit and withdraw (0.01) and of the opening balance (0).
MinAmount == Num(1, 100)
MinInitial == Zero

\* Account._interest_rate as the class is defined (0.005).
DefaultRate == Num(1, 200)

\* Account._transaction_codes.
transaction_codes ==
    [deposit |-> "D", withdraw |-> "W", interest |-> "I", rejected |-> "X"]

\* Arguments the callers pass.
\* Account 1 is created with the defaults (no zone, balance 0), account 2
\* with a zone, an opening balance and a number that contains a hyphen.
AccountNumbers == [a \in Accounts |->
    IF a = 1 THEN <<"1", "2">> ELSE <<"7", "-", "3">>]
ZoneArgs == [a \in Accounts |-> IF a = 1 THEN "None" ELSE "Asia/Jerusalem"]
OpeningBalances == [a \in Accounts |->
    {IF a = 1 THEN Zero ELSE Num(1, 1), Num(0 - 1, 1), NotReal}]
FirstNames == {Str(<<" ", "A", "l">>), Str(<<" ">>)}
LastNames == {Str(<<"B", "o", " ">>), NotStr}
\* Amounts: 0.01, 1 and float('nan') pass validation; 0, -5, 0.005 and a
\* non-number do not.
Amounts ==
    {Num(1, 100), Num(1, 1), NaN,
     Zero, Num(0 - 5, 1), Num(1, 200), NotReal}
\* The amounts of the callers that only exercise the registry.
PlainAmounts == {Num(1, 1)}
\* Rates: 0.5 and float('nan') are stored; -0.01 and a non-number are not.
Rates == {Num(1, 2), NaN, Num(0 - 1, 100), NotReal}
Zones == {"UTC", "Asia/Jerusalem"}
\* The names assigned after construction.
NewNames == {Str(<<"C", "y", " ">>), Str(<<" ", " ">>), NotStr}

\* datetime.now(tz=pytz.utc) at the successive instants the clock shows.
Clock ==
    << [year |-> 2024, month |-> 2, day |-> 29, hour |-> 23, minute |-> 59,
        second |-> 59, microsecond |-> 500000],
       [year |-> 2026, month |-> 11, day |-> 4, hour |-> 9, minute |-> 5,
        second |-> 7, microsecond |-> 0] >>

NoDt == [year |-> 0, month |-> 0, day |-> 0, hour |-> 0, minute |-> 0,
         second |-> 0, microsecond |-> 0]

\* ----------------------------------------------------------------- state
VARIABLES
    live,                \* live[a]: the Account object a has been constructed
    account_number,      \* self._account_number
    first_name,          \* self._first_name
    last_name,           \* self._last_name
    full_name,           \* self._full_name: the cache, unset when None
    balance,             \* self._balance
    tz,                  \* the zone name of self.tz
    interest_rate,       \* Account._interest_rate
    rate_set,            \* the rate of the last set_interest_rate that returned
    transaction_counter, \* the next value of Account.transaction_counter
    transactions,        \* the module-level registry: id_num -> entry
    now,                 \* index into Clock of the current instant
    issued,              \* the confirmation codes the operations returned
    frames,              \* frames[t]: the call thread t is in, and its locals
    overlapped,          \* some call began while another was in progress
    ret                  \* the last call and how it ended

vars ==
    <<live, account_number, first_name, last_name, full_name, balance, tz,
      interest_rate, rate_set, transaction_counter, transactions, now,
      issued, frames, overlapped, ret>>

acct_vars == <<live, account_number, first_name, last_name, full_name, tz>>

rate_vars == <<interest_rate, rate_set>>

thread_vars == <<frames, overlapped>>

\* The Transaction record (transactions.py) built from a registry entry and
\* the caller's zone: a plain carrier of the entry's fields.
Transaction(id_num, code, acc_num, dt, zone) ==
    [account_number |-> acc_num, transaction_code |-> code,
     transaction_id |-> id_num, time_utc |-> dt, zone |-> zone]

NoRecord == Transaction(0, "", <<>>, NoDt, "")

\* How the last call ended.  A call that returned is kept with its receiver
\* and argument and the value returned (conf: the string returned, rec: the
\* record returned); one that raised with the exception.
Outcome(op, a, arg, status, conf, rec) ==
    [op |-> op, acct |-> a, arg |-> arg, status |-> status, conf |-> conf,
     rec |-> rec]

Raised(op, exception) == Outcome(op, 0, None, exception, <<>>, NoRecord)

Unset == [set |-> FALSE, s |-> <<>>]

\* The threads of the embedding application that call the operations
\* without a lock, and the frame of a thread that is in no call.  pc is the
\* line of account.py the thread executes next (0: in no call); the other
\* fields are the locals of deposit, withdraw and pay_interest.
Threads == {1, 2}

Idle == [pc |-> 0, op |-> "", acct |-> 0, amount |-> None, id_num |-> 0,
         dt |-> NoDt, code |-> "", confirmation |-> <<>>, interest |-> None,
         clock_reads |-> 0]

Init ==
    /\ live = [a \in Accounts |-> FALSE]
    /\ account_number = [a \in Accounts |-> <<>>]
    /\ first_name = [a \in Accounts |-> <<>>]
    /\ last_name = [a \in Accounts |-> <<>>]
    /\ full_name = [a \in Accounts |-> Unset]
    /\ balance = [a \in Accounts |-> Zero]
    /\ tz = [a \in Accounts |-> "UTC"]
    /\ interest_rate = DefaultRate
    /\ rate_set = DefaultRate
    /\ transaction_counter = 1
    /\ transactions = << >>
    /\ now = 1
    /\ issued = << >>
    /\ frames = [t \in Threads |-> Idle]
    /\ overlapped = FALSE
    /\ ret = Outcome("start", 0, None, "ok", <<>>, NoRecord)

\* --------------------------------------------------------------- helpers
\* A counter that is read but not advanced.
next_stuck(counter) == [id_num |-> counter, counter |-> counter]

\* A counter that steps by two (itertools.count(1, 2)).
next_by_two(counter) == [id_num |-> counter, counter |-> counter + 2]

\* next(Account.transaction_counter): the value handed out and the counter
\* left behind (itertools.count(1) steps by one).
next(counter) == [id_num |-> counter, counter |-> counter + 1]

\* generate_conf_number with the id and the account number changing places
\* in the string.
generate_conf_number_id_second(registry, acc_num, code, id_num, dt) ==
    LET dt_stamp == strftime(dt)
        entry == [id_num |-> id_num, code |-> code, acc_num |-> acc_num,
                  dt |-> dt]
    IN  [transactions |-> (id_num :> entry) @@ registry,
         conf |-> <<code>> \o <<"-">> \o IntToStr(id_num) \o <<"-">>
                    \o dt_stamp \o <<"-">> \o acc_num]

\* generate_conf_number rebinding the registry to a dict with the new entry
\* alone.
generate_conf_number_rebinds(registry, acc_num, code, id_num, dt) ==
    LET dt_stamp == strftime(dt)
        entry == [id_num |-> id_num, code |-> code, acc_num |-> acc_num,
                  dt |-> dt]
    IN  [transactions |-> (id_num :> entry),
         conf |-> <<code>> \o <<"-">> \o acc_num \o <<"-">> \o dt_stamp
                    \o <<"-">> \o IntToStr(id_num)]

\* generate_conf_number stamping the code with a reading of the clock of
\* its own.
generate_conf_number_rereads(registry, acc_num, code, id_num, dt) ==
    LET dt_stamp == strftime(Clock[now])
        entry == [id_num |-> id_num, code |-> code, acc_num |-> acc_num,
                  dt |-> dt]
    IN  [transactions |-> (id_num :> entry) @@ registry,
         conf |-> <<code>> \o <<"-">> \o acc_num \o <<"-">> \o dt_stamp
                    \o <<"-">> \o IntToStr(id_num)]

\* Account.generate_conf_number: writes the registry entry for id_num and
\* returns the confirmation string.
generate_conf_number(registry, acc_num, code, id_num, dt) ==
    LET dt_stamp == strftime(dt)
        entry == [id_num |-> id_num, code |-> code, acc_num |-> acc_num,
                  dt |-> dt]
    IN  [transactions |-> (id_num :> entry) @@ registry,
         conf |-> <<code>> \o <<"-">> \o acc_num \o <<"-">> \o dt_stamp
                    \o <<"-">> \o IntToStr(id_num)]

\* withdraw without its funds test.
InsufficientFunds_never(bal, amount) == FALSE

\* withdraw testing the balance as it is, `self._balance < 0`.
InsufficientFunds_before(bal, amount) == Lt(bal, Zero)

\* withdraw's test `self._balance - amount < 0`.
InsufficientFunds(bal, amount) == Lt(Sub(bal, amount), Zero)

\* `=` written for `+=`.
Credited_overwrites(bal, amount) == amount

\* `self._balance += amount` and `self._balance -= amount`.
Credited(bal, amount) == Add(bal, amount)

Debited(bal, amount) == Sub(bal, amount)

\* Interest at the rate the class was defined with, whatever it is now.
Interest_at_default_rate(bal, rate) == Mul(bal, DefaultRate)

\* pay_interest's `self._balance * Account._interest_rate`.
Interest(bal, rate) == Mul(bal, rate)

\* transactions[id_num]: the entry, or KeyError when id_num is no key.
NoEntry == [id_num |-> 0, code |-> "", acc_num |-> <<>>, dt |-> NoDt]

\* registry.get(id_num, ...) in place of registry[id_num].
Lookup_with_default(registry, id_num) ==
    IF id_num \in DOMAIN registry
    THEN [ok |-> TRUE, entry |-> registry[id_num]]
    ELSE [ok |-> TRUE, entry |-> NoEntry]

Lookup(registry, id_num) ==
    IF id_num \in DOMAIN registry
    THEN [ok |-> TRUE, entry |-> registry[id_num]]
    ELSE [ok |-> FALSE, entry |-> NoEntry]

\* What the caller keeps of an operation that returned a code.
Receipt(conf, code, a, id_num) ==
    [conf |-> conf, code |-> code, acct |-> a, id_num |-> id_num]

\* --------------------------------------------------------------- actions
\* Account.__init__(number, first_name, last_name, initial_balance, zone).
Construct(a, number, first, last, initial_balance, zone) ==
    /\ ~live[a]
    /\ LET fn == validate_name(first)
           ln == validate_name(last)
           b == validate_initial_balance(initial_balance, MinInitial)
       IN  IF fn.ok /\ ln.ok /\ b.ok
           THEN /\ live' = [live EXCEPT ![a] = TRUE]
                /\ tz' = [tz EXCEPT ![a] = IF zone = "None" THEN @ ELSE zone]
                /\ account_number' =
                       [account_number EXCEPT ![a] = number]
                /\ first_name' = [first_name EXCEPT ![a] = fn.val]
                /\ last_name' = [last_name EXCEPT ![a] = ln.val]
                /\ full_name' = [full_name EXCEPT ![a] = Unset]
                /\ balance' = [balance EXCEPT ![a] = b.val]
                /\ ret' = Outcome("init", a, initial_balance, "ok", <<>>,
                                  NoRecord)
           ELSE /\ ret' = Raised("init", "ValueError")
                /\ UNCHANGED <<acct_vars, balance>>
    /\ UNCHANGED <<rate_vars, transaction_counter, transactions, now,
                   issued>>
    /\ UNCHANGED thread_vars

\* set_interest_rate storing the rate where pay_interest does not read it
\* (an attribute of another object than the class Account).
set_interest_rate_elsewhere(value) ==
    /\ IF ~IsReal(value) \/ Lt(value, Zero)
       THEN /\ ret' = Raised("set_interest_rate", "ValueError")
            /\ UNCHANGED rate_vars
       ELSE /\ UNCHANGED interest_rate
            /\ rate_set' = value
            /\ ret' = Outcome("set_interest_rate", 0, value, "ok", <<>>,
                              NoRecord)
    /\ UNCHANGED <<acct_vars, balance, transaction_counter, transactions,
                   now, issued>>
    /\ UNCHANGED thread_vars

\* Account.set_interest_rate(value).
set_interest_rate(value) ==
    /\ IF ~IsReal(value) \/ Lt(value, Zero)
       THEN /\ ret' = Raised("set_interest_rate", "ValueError")
            /\ UNCHANGED rate_vars
       ELSE /\ interest_rate' = value
            /\ rate_set' = value
            /\ ret' = Outcome("set_interest_rate", 0, value, "ok", <<>>,
                              NoRecord)
    /\ UNCHANGED <<acct_vars, balance, transaction_counter, transactions,
                   now, issued>>
    /\ UNCHANGED thread_vars

\* first_name's setter without the reset of the cache.
first_name_setter_keeps_cache(a, name) ==
    /\ live[a]
    /\ LET v == validate_name(name)
       IN  IF ~v.ok
           THEN /\ ret' = Raised("first_name", "ValueError")
                /\ UNCHANGED <<first_name, full_name>>
           ELSE /\ first_name' = [first_name EXCEPT ![a] = v.val]
                /\ UNCHANGED full_name
                /\ ret' = Outcome("first_name", a, None, "ok", <<>>, NoRecord)
    /\ UNCHANGED <<live, account_number, last_name, tz, balance, rate_vars,
                   transaction_counter, transactions, now, issued>>
    /\ UNCHANGED thread_vars

\* Account.first_name = name (the property's setter).
first_name_setter(a, name) ==
    /\ live[a]
    /\ LET v == validate_name(name)
       IN  IF ~v.ok
           THEN /\ ret' = Raised("first_name", "ValueError")
                /\ UNCHANGED <<first_name, full_name>>
           ELSE /\ first_name' = [first_name EXCEPT ![a] = v.val]
                /\ full_name' = [full_name EXCEPT ![a] = Unset]
                /\ ret' = Outcome("first_name", a, None, "ok", <<>>, NoRecord)
    /\ UNCHANGED <<live, account_number, last_name, tz, balance, rate_vars,
                   transaction_counter, transactions, now, issued>>
    /\ UNCHANGED thread_vars

\* Account.last_name = name (the property's setter).
last_name_setter(a, name) ==
    /\ live[a]
    /\ LET v == validate_name(name)
       IN  IF ~v.ok
           THEN /\ ret' = Raised("last_name", "ValueError")
                /\ UNCHANGED <<last_name, full_name>>
           ELSE /\ last_name' = [last_name EXCEPT ![a] = v.val]
                /\ full_name' = [full_name EXCEPT ![a] = Unset]
                /\ ret' = Outcome("last_name", a, None, "ok", <<>>, NoRecord)
    /\ UNCHANGED <<live, account_number, first_name, tz, balance, rate_vars,
                   transaction_counter, transactions, now, issued>>
    /\ UNCHANGED thread_vars

\* A read of Account.full_name: fills the cache when it is unset and
\* returns what the cache holds.
full_name_getter(a) ==
    /\ live[a]
    /\ \E cached \in {IF full_name[a].set THEN full_name[a]
                       ELSE [set |-> TRUE,
                             s |-> first_name[a] \o <<" ">> \o last_name[a]]} :
          /\ full_name' = [full_name EXCEPT ![a] = cached]
          /\ ret' = Outcome("full_name", a, None, "ok", cached.s, NoRecord)
    /\ UNCHANGED <<live, account_number, first_name, last_name, tz, balance,
                   rate_vars, transaction_counter, transactions, now, issued>>
    /\ UNCHANGED thread_vars

\* deposit with the balance kept in one slot shared by all accounts (a
\* class attribute).
deposit_on_class(a, amount) ==
    /\ live[a]
    /\ LET v == validate_real_number(amount, MinAmount)
       IN  IF ~v.ok
           THEN /\ ret' = Raised("deposit", "ValueError")
                /\ UNCHANGED <<balance, transaction_counter, transactions,
                               issued>>
           ELSE /\ transaction_counter <= MaxId
                /\ LET dt == Clock[now]
                       n == next(transaction_counter)
                       code == transaction_codes.deposit
                   IN  \E g \in {generate_conf_number(transactions,
                                    account_number[a], code, n.id_num, dt)} :
                       /\ transaction_counter' = n.counter
                       /\ transactions' = g.transactions
                       /\ balance' = [b \in Accounts |->
                                         Credited(balance[a], v.val)]
                       /\ issued' = Append(issued,
                                        Receipt(g.conf, code, a, n.id_num))
                       /\ ret' = Outcome("deposit", a, amount, "ok", g.conf,
                                         NoRecord)
    /\ UNCHANGED <<acct_vars, rate_vars, now>>
    /\ UNCHANGED thread_vars

\* Account.deposit(amount).
deposit(a, amount) ==
    /\ live[a]
    /\ LET v == validate_real_number(amount, MinAmount)
       IN  IF ~v.ok
           THEN /\ ret' = Raised("deposit", "ValueError")
                /\ UNCHANGED <<balance, transaction_counter, transactions,
                               issued>>
           ELSE /\ transaction_counter <= MaxId
                /\ LET dt == Clock[now]
                       n == next(transaction_counter)
                       code == transaction_codes.deposit
                   IN  \E g \in {generate_conf_number(transactions,
                                    account_number[a], code, n.id_num, dt)} :
                       /\ transaction_counter' = n.counter
                       /\ transactions' = g.transactions
                       /\ balance' = [balance EXCEPT ![a] = Credited(@, v.val)]
                       /\ issued' = Append(issued,
                                        Receipt(g.conf, code, a, n.id_num))
                       /\ ret' = Outcome("deposit", a, amount, "ok", g.conf,
                                         NoRecord)
    /\ UNCHANGED <<acct_vars, rate_vars, now>>
    /\ UNCHANGED thread_vars

\* Account.withdraw(amount).
withdraw(a, amount) ==
    /\ live[a]
    /\ LET v == validate_real_number(amount, MinAmount)
       IN  IF ~v.ok
           THEN /\ ret' = Raised("withdraw", "ValueError")
                /\ UNCHANGED <<balance, transaction_counter, transactions,
                               issued>>
           ELSE /\ transaction_counter <= MaxId
                /\ LET n == next(transaction_counter)
                       dt == Clock[now]
                       rejected == InsufficientFunds(balance[a], v.val)
                       code == IF rejected THEN transaction_codes.rejected
                               ELSE transaction_codes.withdraw
                   IN  \E g \in {generate_conf_number(transactions,
                                    account_number[a], code, n.id_num, dt)} :
                       /\ transaction_counter' = n.counter
                       /\ transactions' = g.transactions
                       /\ balance' = IF rejected THEN balance
                                     ELSE [balance EXCEPT ![a] = Debited(@, v.val)]
                       /\ issued' = Append(issued,
                                        Receipt(g.conf, code, a, n.id_num))
                       /\ ret' = Outcome("withdraw", a, amount, "ok", g.conf,
                                         NoRecord)
    /\ UNCHANGED <<acct_vars, rate_vars, now>>
    /\ UNCHANGED thread_vars

\* Account.pay_interest().
pay_interest(a) ==
    /\ live[a]
    /\ transaction_counter <= MaxId
    /\ LET interest == Interest(balance[a], interest_rate)
           dt == Clock[now]
           n == next(transaction_counter)
           code == transaction_codes.interest
       IN  \E g \in {generate_conf_number(transactions, account_number[a],
                                           code, n.id_num, dt)} :
           /\ transaction_counter' = n.counter
           /\ transactions' = g.transactions
           /\ balance' = [balance EXCEPT ![a] = Credited(@, interest)]
           /\ issued' = Append(issued, Receipt(g.conf, code, a, n.id_num))
           /\ ret' = Outcome("pay_interest", a, None, "ok", g.conf, NoRecord)
    /\ UNCHANGED <<acct_vars, rate_vars, now>>
    /\ UNCHANGED thread_vars

\* get_transaction taking the entry out of the registry as it reads it
\* (transactions.pop(id_num) for transactions[id_num]).
get_transaction_pops(confirmation, zone) ==
    /\ \E seg \in {LastSegment(confirmation)} :
          IF ~IntParses(seg)
          THEN /\ ret' = Outcome("get_transaction", 0, None, "ValueError",
                                 confirmation, NoRecord)
               /\ UNCHANGED transactions
          ELSE \E found \in {Lookup(transactions, StrToInt(seg))} :
                 IF ~found.ok
                 THEN /\ ret' = Outcome("get_transaction", 0, None,
                                        "KeyError", confirmation, NoRecord)
                      /\ UNCHANGED transactions
                 ELSE \E e \in {found.entry} :
                        /\ ret' = Outcome("get_transaction", 0, None, "ok",
                                     confirmation,
                                     Transaction(e.id_num, e.code, e.acc_num,
                                                 e.dt, zone))
                        /\ transactions' =
                              [i \in DOMAIN transactions \ {e.id_num}
                                  |-> transactions[i]]
    /\ UNCHANGED <<acct_vars, balance, rate_vars, transaction_counter,
                   now, issued>>
    /\ UNCHANGED thread_vars

\* Account.get_transaction(confirmation, tz).
get_transaction(confirmation, zone) ==
    /\ \E seg \in {LastSegment(confirmation)} :
          IF ~IntParses(seg)
          THEN ret' = Outcome("get_transaction", 0, None, "ValueError",
                              confirmation, NoRecord)
          ELSE \E found \in {Lookup(transactions, StrToInt(seg))} :
                 IF ~found.ok
                 THEN ret' = Outcome("get_transaction", 0, None, "KeyError",
                                     confirmation, NoRecord)
                 ELSE \E e \in {found.entry} :
                        ret' = Outcome("get_transaction", 0, None, "ok",
                                  confirmation,
                                  Transaction(e.id_num, e.code, e.acc_num,
                                              e.dt, zone))
    /\ UNCHANGED <<acct_vars, balance, rate_vars, transaction_counter,
                   transactions, now, issued>>
    /\ UNCHANGED thread_vars

\* A caller invokes the public method generate_conf_number itself, with an
\* id_num of its choosing, as the test suite does.
call_generate_conf_number(a, code, id_num, dt) ==
    /\ live[a]
    /\ \E g \in {generate_conf_number(transactions, account_number[a], code,
                                        id_num, dt)} :
           /\ transactions' = g.transactions
           /\ ret' = Outcome("generate_conf_number", a, Num(id_num, 1), "ok",
                             g.conf, NoRecord)
    /\ UNCHANGED <<acct_vars, balance, rate_vars, transaction_counter,
                   now, issued>>
    /\ UNCHANGED thread_vars

\* The clock moves on to its next instant.
Tick ==
    /\ now < Len(Clock)
    /\ now' = now + 1
    /\ ret' = Outcome("tick", 0, None, "ok", <<>>, NoRecord)
    /\ UNCHANGED <<acct_vars, balance, rate_vars, transaction_counter,
                   transactions, issued>>
    /\ UNCHANGED thread_vars

\* Codes a caller may present that no operation returned: one in the
\* four-field format for each of two ids, and one with no id at all.
ForgedCode(id_num) ==
    <<"W", "-", "0", "-">> \o strftime(Clock[1]) \o <<"-">> \o IntToStr(id_num)

\* A code cut down to an empty field and the id.
ShortCode(id_num) == <<"-">> \o IntToStr(id_num)

PresentedCodes ==
    {issued[i].conf : i \in 1..Len(issued)}
        \cup {ForgedCode(1), ForgedCode(MaxId + 1), ShortCode(1),
              <<"D", "-", "x">>}

\* ------------------------------------------- the operations, by statement
\* Two threads call deposit, withdraw and pay_interest with no lock; a step
\* is one statement of account.py (a return is taken with the statement
\* before it, an assignment of a constant to a local with the one after).
\* Calls in progress that have not drawn their id yet.
Pending ==
    Cardinality({t \in Threads : frames[t].pc # 0 /\ frames[t].id_num = 0})

FirstLine == [deposit |-> 121, withdraw |-> 135, pay_interest |-> 152]

\* Thread t calls op on account a: the validation of the amount (lines 119
\* and 133), which raises or lets the call proceed.
Call(t, op, a, amount) ==
    /\ frames[t].pc = 0
    /\ live[a]
    /\ transaction_counter + Pending <= MaxId
    /\ LET v == IF op = "pay_interest" THEN Return(None)
                ELSE validate_real_number(amount, MinAmount)
       IN  IF ~v.ok
           THEN /\ ret' = Raised(op, "ValueError")
                /\ UNCHANGED thread_vars
           ELSE /\ frames' = [frames EXCEPT ![t] =
                                [Idle EXCEPT !.pc = FirstLine[op], !.op = op,
                                             !.acct = a, !.amount = v.val]]
                /\ overlapped' = (overlapped
                                    \/ \E u \in Threads \ {t} : frames[u].pc # 0)
                /\ UNCHANGED ret
    /\ UNCHANGED <<acct_vars, balance, rate_vars, transaction_counter,
                   transactions, now, issued>>

\* dt = datetime.now(tz=pytz.utc) (lines 121, 136, 154).
ReadClock(t) ==
    /\ frames[t].pc \in {121, 136, 154}
    /\ frames' = [frames EXCEPT ![t].dt = Clock[now],
                                ![t].clock_reads = @ + 1,
                                ![t].pc = IF @ = 121 THEN 122
                                          ELSE IF @ = 136 THEN 138 ELSE 155]
    /\ UNCHANGED <<acct_vars, balance, rate_vars, transaction_counter,
                   transactions, now, issued, overlapped, ret>>

\* id_num = next(Account.transaction_counter) (lines 122, 135, 155), with
\* the code letter of deposit and pay_interest (lines 123, 156).
DrawId(t) ==
    /\ frames[t].pc \in {122, 135, 155}
    /\ transaction_counter <= MaxId
    /\ LET n == next(transaction_counter)
       IN  /\ transaction_counter' = n.counter
           /\ frames' = [frames EXCEPT
                  ![t].id_num = n.id_num,
                  ![t].code = IF frames[t].pc = 122
                              THEN transaction_codes.deposit
                              ELSE IF frames[t].pc = 155
                              THEN transaction_codes.interest ELSE @,
                  ![t].pc = IF @ = 122 THEN 124
                            ELSE IF @ = 135 THEN 136 ELSE 158]
    /\ UNCHANGED <<acct_vars, balance, rate_vars, transactions, now, issued,
                   overlapped, ret>>

\* interest = self._balance * Account._interest_rate (line 152).
ComputeInterest(t) ==
    /\ frames[t].pc = 152
    /\ frames' = [frames EXCEPT
           ![t].interest = Interest(balance[frames[t].acct], interest_rate),
           ![t].pc = 154]
    /\ UNCHANGED <<acct_vars, balance, rate_vars, transaction_counter,
                   transactions, now, issued, overlapped, ret>>

\* if self._balance - amount < 0 (line 138), with the code letter chosen
\* (lines 139, 142).
TestFunds(t) ==
    /\ frames[t].pc = 138
    /\ LET rejected == InsufficientFunds(balance[frames[t].acct],
                                         frames[t].amount)
       IN  frames' = [frames EXCEPT
              ![t].code = IF rejected THEN transaction_codes.rejected
                          ELSE transaction_codes.withdraw,
              ![t].pc = IF rejected THEN 140 ELSE 143]
    /\ UNCHANGED <<acct_vars, balance, rate_vars, transaction_counter,
                   transactions, now, issued, overlapped, ret>>

\* return self.generate_conf_number(code, id_num, dt) (line 140).
ReturnRejected(t) ==
    /\ frames[t].pc = 140
    /\ \E f \in {frames[t]} :
       \E g \in {generate_conf_number(transactions, account_number[f.acct],
                                       f.code, f.id_num, f.dt)} :
          /\ transactions' = g.transactions
          /\ issued' = Append(issued, Receipt(g.conf, f.code, f.acct, f.id_num))
          /\ ret' = Outcome(f.op, f.acct, f.amount, "ok", g.conf, NoRecord)
          /\ frames' = [frames EXCEPT ![t] = Idle]
    /\ UNCHANGED <<acct_vars, balance, rate_vars, transaction_counter, now,
                   overlapped>>

\* confirmation = self.generate_conf_number(code, id_num, dt) (lines 124,
\* 143, 158).
Confirm(t) ==
    /\ frames[t].pc \in {124, 143, 158}
    /\ \E f \in {frames[t]} :
       \E g \in {generate_conf_number(transactions, account_number[f.acct],
                                       f.code, f.id_num, f.dt)} :
          /\ transactions' = g.transactions
          /\ frames' = [frames EXCEPT
                 ![t].confirmation = g.conf,
                 ![t].pc = IF @ = 124 THEN 126
                           ELSE IF @ = 143 THEN 145 ELSE 159]
    /\ UNCHANGED <<acct_vars, balance, rate_vars, transaction_counter, now,
                   issued, overlapped, ret>>

\* self._balance += amount, -= amount, += interest (lines 126, 145, 159)
\* and return confirmation (lines 128, 147, 161).
Settle(t) ==
    /\ frames[t].pc \in {126, 145, 159}
    /\ \E f \in {frames[t]} :
          /\ balance' = [balance EXCEPT ![f.acct] =
                            IF f.pc = 126 THEN Credited(@, f.amount)
                            ELSE IF f.pc = 145 THEN Debited(@, f.amount)
                            ELSE Credited(@, f.interest)]
          /\ issued' = Append(issued,
                           Receipt(f.confirmation, f.code, f.acct, f.id_num))
          /\ ret' = Outcome(f.op, f.acct, f.amount, "ok", f.confirmation,
                            NoRecord)
          /\ frames' = [frames EXCEPT ![t] = Idle]
    /\ UNCHANGED <<acct_vars, rate_vars, transaction_counter, transactions,
                   now, overlapped>>

\* The ledger: construction, the three operations over the full range of
\* amounts, and the class-level rate.
Next ==
    \/ \E a \in Accounts : \E first \in FirstNames, last \in LastNames,
          b \in OpeningBalances[a] :
            Construct(a, AccountNumbers[a], first, last, b, ZoneArgs[a])
    \/ \E value \in Rates : set_interest_rate(value)
    \/ \E a \in Accounts, amount \in Amounts : deposit(a, amount)
    \/ \E a \in Accounts, amount \in Amounts : withdraw(a, amount)
    \/ \E a \in Accounts : pay_interest(a)

Spec == Init /\ [][Next]_vars

\* The registry: the three operations, the clock and the lookup.
NextRegistry ==
    \/ \E a \in Accounts : \E first \in FirstNames, last \in LastNames,
          b \in OpeningBalances[a] :
            Construct(a, AccountNumbers[a], first, last, b, ZoneArgs[a])
    \/ \E a \in Accounts, amount \in PlainAmounts : deposit(a, amount)
    \/ \E a \in Accounts, amount \in PlainAmounts : withdraw(a, amount)
    \/ \E a \in Accounts : pay_interest(a)
    \/ \E c \in PresentedCodes, zone \in Zones : get_transaction(c, zone)
    \/ Tick

SpecRegistry == Init /\ [][NextRegistry]_vars

\* The registry with callers that also invoke generate_conf_number directly.
DirectIds == {1, 2}

NextDirect ==
    \/ \E a \in Accounts : \E first \in FirstNames, last \in LastNames,
          b \in OpeningBalances[a] :
            Construct(a, AccountNumbers[a], first, last, b, ZoneArgs[a])
    \/ \E a \in Accounts, amount \in PlainAmounts : deposit(a, amount)
    \/ \E a \in Accounts, amount \in PlainAmounts : withdraw(a, amount)
    \/ \E a \in Accounts : pay_interest(a)
    \/ \E a \in Accounts, id_num \in DirectIds :
            call_generate_conf_number(a, transaction_codes.deposit, id_num,
                                      Clock[now])
    \/ Tick

SpecDirect == Init /\ [][NextDirect]_vars

\* The identity fields: construction, assignments to the names and reads of
\* full_name.
NextNames ==
    \/ \E a \in Accounts : \E first \in FirstNames, last \in LastNames,
          b \in OpeningBalances[a] :
            Construct(a, AccountNumbers[a], first, last, b, ZoneArgs[a])
    \/ \E a \in Accounts, name \in NewNames : first_name_setter(a, name)
    \/ \E a \in Accounts, name \in NewNames : last_name_setter(a, name)
    \/ \E a \in Accounts : full_name_getter(a)

SpecNames == Init /\ [][NextNames]_vars

\* The operations called from two threads on the account that opens with a
\* balance, statement by statement, and the clock.
ThreadAccounts == {2}

NextThreads ==
    \/ \E a \in ThreadAccounts : \E first \in FirstNames, last \in LastNames,
          b \in OpeningBalances[a] :
            Construct(a, AccountNumbers[a], first, last, b, ZoneArgs[a])
    \/ \E t \in Threads, a \in ThreadAccounts, amount \in PlainAmounts :
            Call(t, "deposit", a, amount)
    \/ \E t \in Threads, a \in ThreadAccounts, amount \in PlainAmounts :
            Call(t, "withdraw", a, amount)
    \/ \E t \in Threads, a \in ThreadAccounts : Call(t, "pay_interest", a, None)
    \/ \E t \in Threads : ReadClock(t)
    \/ \E t \in Threads : DrawId(t)
    \/ \E t \in Threads : ComputeInterest(t)
    \/ \E t \in Threads : TestFunds(t)
    \/ \E t \in Threads : ReturnRejected(t)
    \/ \E t \in Threads : Confirm(t)
    \/ \E t \in Threads : Settle(t)
    \/ Tick

SpecThreads == Init /\ [][NextThreads]_vars

\* ================================================================ claims
\* Arithmetic facts about the values held in the state, stated on the
\* numerators and denominators themselves.
NonNegative(v) == (v.k = "num" /\ v.n >= 0) \/ v.k = "inf"

\* v is a real number and v >= 0.01.
AtLeastMinimum(v) == v.k = "num" /\ v.n * 100 >= v.d

\* x <= y as numbers; false when either is nan.
NumLe(x, y) == x.k = "num" /\ y.k = "num" /\ x.n * y.d <= y.n * x.d

\* The number x + y and the number x - y.
NumSum(x, y) == Num(x.n * y.d + y.n * x.d, x.d * y.d)

NumDiff(x, y) == Num(x.n * y.d - y.n * x.d, x.d * y.d)

\* The id the shared counter hands out next, as the last field of a code.
EndsWithId(conf, id_num) == LastSegment(conf) = IntToStr(id_num)

\* The registry as it is after exactly one entry was added under id_num,
\* compared with the registry before.
OneEntryAdded(id_num, code, acc_num) ==
    /\ id_num \notin DOMAIN transactions
    /\ DOMAIN transactions' = DOMAIN transactions \cup {id_num}
    /\ \A i \in DOMAIN transactions : transactions'[i] = transactions[i]
    /\ transactions'[id_num].id_num = id_num
    /\ transactions'[id_num].code = code
    /\ transactions'[id_num].acc_num = acc_num

\* C1: every constructed account has balance >= 0 in every reachable state,
\* whatever deposit, withdraw, pay_interest and set_interest_rate calls
\* were made.
C1_BalanceNonNegative ==
    \A a \in Accounts : live[a] => NonNegative(balance[a])

\* C2: a withdraw call with a valid amount (a real number >= 0.01) is
\* accepted iff amount <= balance at call time; accepted, the code starts
\* with W and the balance decreases by exactly amount; otherwise the code
\* starts with X and the balance is unchanged.
C2_WithdrawAcceptedIffCovered ==
    [][\A a \in Accounts :
        (/\ ret'.op = "withdraw" /\ ret'.status = "ok" /\ ret'.acct = a
         /\ transaction_counter' = transaction_counter + 1
         /\ AtLeastMinimum(ret'.arg))
        => IF NumLe(ret'.arg, balance[a])
           THEN /\ Head(ret'.conf) = "W"
                /\ balance'[a] = NumDiff(balance[a], ret'.arg)
           ELSE /\ Head(ret'.conf) = "X"
                /\ balance'[a] = balance[a]]_vars

\* What a rejected withdraw(amount) on account a leaves behind.
C3_RejectionPost(a) ==
    /\ ret'.status = "ok"
    /\ transaction_counter' = transaction_counter + 1
    /\ OneEntryAdded(transaction_counter, "X", account_number[a])
    /\ Head(ret'.conf) = "X"
    /\ EndsWithId(ret'.conf, transaction_counter)
    /\ balance' = balance

\* C3: a withdrawal of a valid amount that exceeds the balance returns
\* normally: it consumes exactly one id, adds exactly one registry entry
\* for that id with code X and the account's number, returns a code tagged
\* X, and leaves the balance unchanged.
C3_RejectedWithdrawalIsAudited ==
    \A a \in Accounts, amount \in Amounts :
        (/\ live[a] /\ transaction_counter <= MaxId
         /\ AtLeastMinimum(amount)
         /\ balance[a].k = "num" /\ ~NumLe(amount, balance[a]))
        => /\ ENABLED withdraw(a, amount)
           /\ ~ENABLED (withdraw(a, amount) /\ ~C3_RejectionPost(a))

C3_Witness ==
    /\ ret.op = "withdraw" /\ ret.status = "ok"
    /\ Head(ret.conf) = "X"
    /\ transactions[transaction_counter - 1].code = "X"

\* What a call that raised ValueError leaves behind.
C4_NoEffect ==
    /\ ret'.status = "ValueError"
    /\ UNCHANGED <<balance, transactions, transaction_counter, issued>>

\* C4: a deposit or withdraw whose amount is not a real number, is
\* negative, is zero or is below 0.01 raises ValueError and leaves the
\* balances, the registry and the shared counter as they were.
C4_InvalidAmountHasNoEffect ==
    \A a \in Accounts, amount \in Amounts :
        (live[a] /\ (amount.k = "other" \/ (amount.k = "num" /\ amount.n * 100 < amount.d)))
        => /\ ENABLED deposit(a, amount)
           /\ ~ENABLED (deposit(a, amount) /\ ~C4_NoEffect)
           /\ ENABLED withdraw(a, amount)
           /\ ~ENABLED (withdraw(a, amount) /\ ~C4_NoEffect)

C4_Witness ==
    /\ ret.op \in {"deposit", "withdraw"} /\ ret.status = "ValueError"
    /\ transaction_counter > 1

\* C5: no two confirmation codes returned by the operations, on whatever
\* accounts, carry the same id: neither as the id allocated nor as the
\* trailing component of the code.
C5_IdsNeverReused ==
    \A i, j \in 1..Len(issued) :
        i # j => /\ issued[i].id_num # issued[j].id_num
                 /\ LastSegment(issued[i].conf) # LastSegment(issued[j].conf)

C5_Witness ==
    /\ Len(issued) = MaxId
    /\ \E i, j \in 1..Len(issued) : issued[i].acct # issued[j].acct

\* The record returned for the i-th code the operations returned.
C6_LookupPost(i) ==
    /\ ret'.status = "ok"
    /\ ret'.rec.transaction_code = issued[i].code
    /\ ret'.rec.account_number = AccountNumbers[issued[i].acct]
    /\ ret'.rec.transaction_id = issued[i].id_num

\* C6: get_transaction applied to a code an operation returned, at once or
\* after further operations, returns a record with that operation's code
\* letter, account number and id, also when the account number contains
\* hyphens.
C6_CodeLeadsBackToItsOperation ==
    \A i \in 1..Len(issued), zone \in Zones :
        /\ issued[i].id_num = i
        /\ ENABLED get_transaction(issued[i].conf, zone)
        /\ ~ENABLED (get_transaction(issued[i].conf, zone)
                        /\ ~C6_LookupPost(i))

C6_Witness ==
    /\ ret.op = "get_transaction" /\ ret.status = "ok"
    /\ ret.rec.account_number = <<"7", "-", "3">>
    /\ ret.rec.transaction_code = "W"
    /\ ret.rec.transaction_id < Len(issued)
    /\ ret.conf = issued[ret.rec.transaction_id].conf

\* C7 as claimed: no call, a direct generate_conf_number call with a
\* caller-chosen id_num included, changes or removes an existing registry
\* entry.
C7_AppendOnlyUnderEveryMethod ==
    [][\A id \in DOMAIN transactions :
          /\ id \in DOMAIN transactions'
          /\ transactions'[id] = transactions[id]]_vars

\* C7 as amended: no call removes an entry; while every key was handed out
\* by the shared counter, deposit, withdraw and pay_interest leave the
\* existing entries as they are; a direct generate_conf_number call leaves
\* every entry but the one under its id_num as it is, and writes that one
\* anew with its own code and account number.
C7_AppendOnlyUnderTheOperations ==
    [][/\ \A id \in DOMAIN transactions : id \in DOMAIN transactions'
       /\ (/\ ret'.op # "generate_conf_number"
           /\ \A id \in DOMAIN transactions : id < transaction_counter)
          => \A id \in DOMAIN transactions :
                transactions'[id] = transactions[id]
       /\ ret'.op = "generate_conf_number"
          => /\ \A id \in DOMAIN transactions \ {ret'.arg.n} :
                   transactions'[id] = transactions[id]
             /\ transactions'[ret'.arg.n].acc_num
                   = AccountNumbers[ret'.acct]
             /\ transactions'[ret'.arg.n].code = "D"]_vars

C7_Witness ==
    /\ ret.op = "generate_conf_number"
    /\ \E i \in 1..Len(issued) :
          /\ issued[i].id_num = ret.arg.n
          /\ transactions[ret.arg.n].acc_num # AccountNumbers[issued[i].acct]

\* A lookup that ended in KeyError.
C8_NotFound ==
    /\ ret'.status = "KeyError"
    /\ ret'.rec = NoRecord

\* C8: get_transaction with a code in the four-field format whose trailing
\* id is not a key of the registry raises KeyError and returns no record.
C8_NeverIssuedIsNotFound ==
    \A id_num \in 1..(MaxId + 1), zone \in Zones :
        id_num \notin DOMAIN transactions
        => \A c \in {ForgedCode(id_num)} :
              /\ ENABLED get_transaction(c, zone)
              /\ ~ENABLED (get_transaction(c, zone) /\ ~C8_NotFound)

C8_Witness ==
    /\ ret.op = "get_transaction" /\ ret.status = "KeyError"
    /\ transactions # << >>
    /\ IntParses(LastSegment(ret.conf))

\* What deposit(amount) on account a leaves behind.
C9_DepositPost(a, amount) ==
    /\ ret'.status = "ok"
    /\ balance'[a] = IF balance[a].k = "num"
                      THEN NumSum(balance[a], amount) ELSE balance[a]
    /\ Head(ret'.conf) = "D"
    /\ EndsWithId(ret'.conf, transaction_counter)
    /\ transaction_counter' = transaction_counter + 1
    /\ OneEntryAdded(transaction_counter, "D", account_number[a])

\* C9: deposit of a real amount >= 0.01 returns normally; the balance is
\* the balance before plus the amount, the code starts with D and ends
\* with the id just drawn from the shared counter, and exactly one registry
\* entry, with code D, is added.
C9_ValidDepositSucceeds ==
    \A a \in Accounts, amount \in Amounts :
        (live[a] /\ transaction_counter <= MaxId /\ AtLeastMinimum(amount))
        => /\ ENABLED deposit(a, amount)
           /\ ~ENABLED (deposit(a, amount) /\ ~C9_DepositPost(a, amount))

C9_Witness ==
    /\ ret.op = "deposit" /\ ret.status = "ok"
    /\ ret.arg = Num(1, 100)
    /\ balance[ret.acct] = Num(101, 100)
    /\ Head(ret.conf) = "D"

\* What pay_interest() on account a leaves behind.
C10_InterestPost(a) ==
    /\ ret'.status = "ok"
    /\ Head(ret'.conf) = "I"
    /\ IF balance[a].k = "num" /\ interest_rate.k = "num"
       THEN balance'[a] = Num(balance[a].n * (interest_rate.d + interest_rate.n),
                              balance[a].d * interest_rate.d)
       ELSE balance'[a].k = "nan"

\* C10: pay_interest always returns a code starting with I and sets the
\* balance to balance + balance * rate with the balance and the rate of
\* the moment of the call, so that consecutive calls compound.
C10_InterestOnCurrentBalance ==
    \A a \in Accounts :
        (live[a] /\ transaction_counter <= MaxId)
        => /\ ENABLED pay_interest(a)
           /\ ~ENABLED (pay_interest(a) /\ ~C10_InterestPost(a))

\* Opening balance 1 after two payments at 0.005: 1.005 * 1.005, not 1.01.
C10_Witness ==
    /\ ret.op = "pay_interest" /\ ret.status = "ok"
    /\ transaction_counter = 3
    /\ \A i \in 1..2 : issued[i].code = "I" /\ issued[i].acct = ret.acct
    /\ balance[ret.acct] = Num(40401, 40000)

\* x < y as numbers; false when either is nan.
NumLess(x, y) == x.k = "num" /\ y.k = "num" /\ x.n * y.d < y.n * x.d

\* C11: pay_interest on any account, whenever the account was created,
\* computes with the rate of the last set_interest_rate call that returned
\* (the class default before any such call): balance * (1 + that rate).
C11_RateChangeIsGlobal ==
    [][\A a \in Accounts :
          (ret'.op = "pay_interest" /\ ret'.acct = a)
          => IF balance[a].k = "num" /\ rate_set.k = "num"
             THEN balance'[a] = Num(balance[a].n * (rate_set.d + rate_set.n),
                                    balance[a].d * rate_set.d)
             ELSE balance'[a].k = "nan"]_vars

\* Interest at 0.5, set by a call on the class, on the opening balance 1 of
\* the second account, as the first operation of the program.
C11_Witness ==
    /\ ret.op = "pay_interest" /\ ret.acct = 2
    /\ rate_set = Num(1, 2)
    /\ Len(issued) = 1
    /\ balance[2] = Num(3, 2)
    /\ live[1]

\* What a set_interest_rate call that raised leaves behind.
C12_RejectedRatePost ==
    /\ ret'.status = "ValueError"
    /\ interest_rate' = interest_rate

\* C12: set_interest_rate raises ValueError and leaves the rate as it was
\* when the value is not a real number or is negative; the rate is >= 0
\* in every reachable state; pay_interest never leaves a balance lower than
\* it found it.
C12_RateNeverNegative ==
    /\ \A value \in Rates :
          (value.k = "other" \/ (value.k = "num" /\ value.n < 0))
          => /\ ENABLED set_interest_rate(value)
             /\ ~ENABLED (set_interest_rate(value) /\ ~C12_RejectedRatePost)
    /\ NonNegative(interest_rate)
    /\ \A a \in Accounts :
          live[a] => ~ENABLED (pay_interest(a)
                                /\ NumLess(balance'[a], balance[a]))

\* C13: a read of full_name returns the first name the account has at
\* that moment, one space and the last name it has at that moment, in
\* every state reached by construction, assignments to the names that
\* succeeded or raised, and earlier reads.
C13_FullNameIsCurrent ==
    \A a \in Accounts :
        live[a]
        => /\ ENABLED full_name_getter(a)
           /\ ~ENABLED (full_name_getter(a)
                          /\ ~(/\ ret'.status = "ok"
                               /\ ret'.conf = first_name[a] \o <<" ">>
                                                \o last_name[a]))

\* A read that returns the name as reassigned, while the other account
\* still holds the concatenation cached by an earlier read.
C13_Witness ==
    /\ ret.op = "full_name" /\ ret.acct = 1
    /\ ret.conf = <<"C", "y", " ", "C", "y">>
    /\ full_name[2] = [set |-> TRUE, s |-> <<"A", "l", " ", "B", "o">>]

\* The k-th hyphen-delimited field of s (s.split('-')[k - 1]).
Field(s, k) ==
    LET H == Hyphens(s)
        pos(j) == IF j = 0 THEN 0
                  ELSE IF j > Cardinality(H) THEN Len(s) + 1
                  ELSE CHOOSE i \in H : Cardinality({h \in H : h <= i}) = j
    IN  SubSeq(s, pos(k - 1) + 1, pos(k) - 1)

FieldCount(s) == Cardinality(Hyphens(s)) + 1

\* C14: every code the operations returned splits at its hyphens into
\* exactly four fields: the code letter (D, W, I or X), the account number,
\* a stamp of 14 digits, and the id in decimal.
C14_ExactlyFourFields ==
    \A i \in 1..Len(issued) :
        \A c \in {issued[i].conf} :
            /\ FieldCount(c) = 4
            /\ Field(c, 1) = <<issued[i].code>>
            /\ issued[i].code \in {"D", "W", "I", "X"}
            /\ Field(c, 2) = account_number[issued[i].acct]
            /\ Len(Field(c, 3)) = 14
            /\ \A j \in 1..14 : IsDigit(Field(c, 3)[j])
            /\ Field(c, 4) = IntToStr(issued[i].id_num)

\* The record returned for a code that ends in the id id_num.
C15_SameEntryPost(id_num) ==
    /\ ret'.status = "ok"
    /\ ret'.rec.transaction_id = id_num
    /\ ret'.rec.transaction_code = issued[id_num].code
    /\ ret'.rec.account_number = AccountNumbers[issued[id_num].acct]
    /\ ret'.rec.time_utc = transactions[id_num].dt

\* C15: for an id that was issued, the code the operation returned, a code
\* of four fields with another letter, account number and stamp, and a
\* code cut down to two fields all look up to the same record: the letter,
\* account number and id of the operation that was issued the id, and the
\* instant stored for it.
C15_OnlyTheTrailingIdCounts ==
    \A id_num \in DOMAIN transactions, zone \in Zones :
        /\ id_num \in 1..Len(issued)
        /\ issued[id_num].id_num = id_num
        /\ \A c \in {issued[id_num].conf, ForgedCode(id_num),
                      ShortCode(id_num)} :
              /\ ENABLED get_transaction(c, zone)
              /\ ~ENABLED (get_transaction(c, zone)
                             /\ ~C15_SameEntryPost(id_num))

\* A lookup with the two-field code that found the entry of a withdrawal
\* on the account '7-3', after further operations.
C15_Witness ==
    /\ ret.op = "get_transaction" /\ ret.status = "ok"
    /\ ret.conf = ShortCode(1)
    /\ ret.rec.transaction_code = "W"
    /\ ret.rec.account_number = <<"7", "-", "3">>
    /\ Len(issued) > 1

\* C18: get_transaction, for every code presented and every display zone,
\* whether it returns a record, raises KeyError or cannot parse the code,
\* leaves the registry (its keys, its entries and their instants), the
\* shared counter, the interest rate and every balance as they were.
C18_LookupChangesNothing ==
    \A c \in PresentedCodes, zone \in Zones :
        /\ ENABLED get_transaction(c, zone)
        /\ ~ENABLED (get_transaction(c, zone)
                       /\ ~UNCHANGED <<transactions, transaction_counter,
                                       interest_rate, balance>>)

\* A record rendered for the zone Asia/Jerusalem, with the instant of the
\* entry it was built from still the first instant of the clock, read
\* after the clock moved on.
C18_Witness ==
    /\ ret.op = "get_transaction" /\ ret.status = "ok"
    /\ ret.rec.zone = "Asia/Jerusalem"
    /\ now = 2
    /\ transactions[ret.rec.transaction_id].dt = Clock[1]
    /\ ret.rec.time_utc = Clock[1]

\* C19: when n calls of deposit, withdraw and pay_interest have returned a
\* code (calls that raised ValueError aside), the keys of the registry are
\* exactly 1..n and the counter is at n + 1; the k-th code returned carries
\* the id k as its last field, and the entry under k has id_num k.
C19_IdsAreOneToN ==
    /\ DOMAIN transactions = 1..Len(issued)
    /\ transaction_counter = Len(issued) + 1
    /\ \A k \in 1..Len(issued) :
          /\ issued[k].id_num = k
          /\ Field(issued[k].conf, FieldCount(issued[k].conf)) = IntToStr(k)
          /\ transactions[k].id_num = k

\* As many codes returned as the bound allows, on two accounts, one of them
\* for a rejected withdrawal, and then a call that raised.
C19_Witness ==
    /\ Len(issued) = MaxId
    /\ \E i, j \in 1..Len(issued) :
          issued[i].acct # issued[j].acct /\ issued[i].code = "X"
    /\ ret.status = "ValueError" /\ ret.op = "withdraw"

\* What an operation on account a leaves of the other accounts.
C20_OthersUntouched(a) ==
    \A b \in Accounts \ {a} :
        /\ balance'[b] = balance[b]
        /\ account_number'[b] = account_number[b]
        /\ first_name'[b] = first_name[b]
        /\ last_name'[b] = last_name[b]
        /\ live'[b] = live[b]

\* C20: deposit, withdraw and pay_interest on one account, whatever the
\* amount and however the call ends, leave the balance, the account number
\* and the names of every other account as they were.
C20_OperationsAreLocal ==
    \A a \in Accounts :
        live[a]
        => /\ \A amount \in Amounts :
                 /\ ~ENABLED (deposit(a, amount) /\ ~C20_OthersUntouched(a))
                 /\ ~ENABLED (withdraw(a, amount) /\ ~C20_OthersUntouched(a))
           /\ ~ENABLED (pay_interest(a) /\ ~C20_OthersUntouched(a))

\* Interest paid on the second account while the first holds the 0.01 it
\* was credited before.
C20_Witness ==
    /\ live[1] /\ live[2]
    /\ ret.op = "pay_interest" /\ ret.acct = 2
    /\ balance[2] = Num(201, 200)
    /\ balance[1] = Num(1, 100)

\* C16: a call of deposit, withdraw or pay_interest that returns has read
\* the clock once; the instant it read is the dt of the registry entry
\* under its id, and the stamp in the code it returns is that instant
\* formatted, also when the clock moved on before the call returned.
C16_OneInstantPerCall ==
    [][\A t \in Threads :
          (frames[t].pc # 0 /\ frames'[t].pc = 0)
          => /\ frames[t].clock_reads = 1
             /\ transactions'[frames[t].id_num].dt = frames[t].dt
             /\ Field(ret'.conf, FieldCount(ret'.conf) - 1)
                   = strftime(transactions'[frames[t].id_num].dt)
             /\ Field(ret'.conf, FieldCount(ret'.conf))
                   = IntToStr(frames[t].id_num)]_vars

\* A call that read the first instant of the clock and returned after the
\* clock had moved on to the second.
C16_Witness ==
    /\ ret.op \in {"deposit", "withdraw", "pay_interest"}
    /\ ret.status = "ok"
    /\ now = 2
    /\ Len(issued) > 0
    /\ issued[Len(issued)].conf = ret.conf
    /\ transactions[issued[Len(issued)].id_num].dt = Clock[1]
    /\ Field(ret.conf, FieldCount(ret.conf) - 1) = strftime(Clock[1])

\* v is a number below 0.
Negative(v) == v.k = "num" /\ v.n < 0

\* C17: as long as no call began while another was in progress (every
\* operation ran from its call to its return by itself), no balance is
\* negative; the state C17_Witness, reached by two threads interleaving
\* the statements of withdraw on one account, has a negative balance.
C17_AtomicCallsKeepBalance ==
    ~overlapped => \A a \in Accounts : ~Negative(balance[a])

\* Two withdrawals of 1 from a balance of 1, both accepted: each passed the
\* test of line 138 before the other subtracted at line 145.
C17_Witness ==
    /\ overlapped
    /\ balance[2] = Num(0 - 1, 1)
    /\ Len(issued) = 2
    /\ \A i \in 1..2 : issued[i].code = "W" /\ issued[i].acct = 2
    /\ \A t \in Threads : frames[t].pc = 0

====
